---- MODULE Spec2Model ----
(***************************************************************************)
(* Model of the media filename pipeline of src/main.py (MediaManager) and  *)
(* of the Bangumi client of src/demo/bangumi_api.py.                       *)
(*                                                                         *)
(* Text is a sequence of tokens.  A token is a chunk of characters that    *)
(* every regular expression of the program treats as a unit: one bracket,  *)
(* one whitespace or separator character, one digit, one letter that a     *)
(* rule names on its own ("S", "E", "x", "p"), or one whole word.  Tokens  *)
(* are ASCII; the CJK characters of the source are transliterated:         *)
(*   "[cjk" "]cjk"  the full-width brackets of the bracket expressions     *)
(*   "di" "ji"        the two characters around a season numeral           *)
(*   "yi" .. "shi"    the numerals one to ten of cn_num_map                *)
(***************************************************************************)
EXTENDS Naturals, Sequences, FiniteSets

(* ------------------------------------------------------------------ *)
(* Bounds of the model                                                 *)
(* ------------------------------------------------------------------ *)
MaxSegs == 3
MaxFiles == 3

(* ------------------------------------------------------------------ *)
(* Character classes                                                   *)
(* ------------------------------------------------------------------ *)
None == <<"None">>

Digits == {"0", "1", "2", "3", "4", "5", "6", "7", "8", "9"}

IsDigit(t) == t \in Digits

IsSpace(t) == t = " "

IsSep(t) == t \in {" ", ".", "_", "-"}

IsOpen(t) == t \in {"[", "[cjk"}

IsClose(t) == t \in {"]", "]cjk"}

IsSeasonKw(t) == t \in {"Season", "season", "SEASON"}

Min(S) == CHOOSE x \in S : \A y \in S : x <= y

Max(S) == CHOOSE x \in S : \A y \in S : x >= y

(* First index at or after p whose token is not whitespace / not a digit
   (Len(s) + 1 when the run reaches the end): the greedy \s* and \d+. *)
SkipSpaces(s, p) == Min({k \in p..(Len(s) + 1) : k = Len(s) + 1 \/ ~IsSpace(s[k])})

SkipDigits(s, p) == Min({k \in p..(Len(s) + 1) : k = Len(s) + 1 \/ ~IsDigit(s[k])})

(* str.strip() *)
Strip(s) ==
  LET keep == {k \in 1..Len(s) : ~IsSpace(s[k])}
  IN IF keep = {} THEN <<>> ELSE SubSeq(s, Min(keep), Max(keep))

(* str.replace(sub, '', 1): the first occurrence of sub removed *)
Replace1(s, sub) ==
  LET n == Len(sub)
      at == {i \in 1..(Len(s) - n + 1) : SubSeq(s, i, i + n - 1) = sub}
  IN IF n = 0 \/ at = {} THEN s
     ELSE SubSeq(s, 1, Min(at) - 1) \o SubSeq(s, Min(at) + n, Len(s))

(* ------------------------------------------------------------------ *)
(* Bracket blocks: the expression [\[<cjk>](.*?)[\]<cjk>]              *)
(* ------------------------------------------------------------------ *)
NoBlock == [start |-> 0, end |-> 0]

NextBlock(s, from) ==
  LET opens == {i \in from..Len(s) :
                  IsOpen(s[i]) /\ \E j \in (i + 1)..Len(s) : IsClose(s[j])}
  IN IF opens = {} THEN NoBlock
     ELSE LET i == Min(opens)
          IN [start |-> i, end |-> Min({j \in (i + 1)..Len(s) : IsClose(s[j])})]

RECURSIVE BlocksFrom(_, _)
BlocksFrom(s, from) ==
  LET b == NextBlock(s, from)
  IN IF b.start = 0 THEN <<>>
     ELSE <<[text |-> SubSeq(s, b.start, b.end),
             content |-> SubSeq(s, b.start + 1, b.end - 1)]>>
          \o BlocksFrom(s, b.end + 1)

(* re.finditer over the bracket expression *)
FindBlocks(s) == BlocksFrom(s, 1)

RECURSIVE StripBlocksFrom(_, _)
StripBlocksFrom(s, from) ==
  LET b == NextBlock(s, from)
  IN IF b.start = 0 THEN SubSeq(s, from, Len(s))
     ELSE SubSeq(s, from, b.start - 1) \o StripBlocksFrom(s, b.end + 1)

(* re.sub of the bracket expression by '' *)
StripBlocks(s) == StripBlocksFrom(s, 1)

(* ------------------------------------------------------------------ *)
(* Step 1: \[([^\]]*?)\s*[Ss]eason\s*(\d+)\]                           *)
(* ------------------------------------------------------------------ *)
NoMatch == [found |-> FALSE, whole |-> <<>>, g1 |-> <<>>, g2 |-> <<>>]

(* The match that starts at i with a first group of k tokens, if any. *)
TitleSeasonAt(s, i, k) ==
  LET p == i + 1 + k
      q == SkipSpaces(s, p)
      r == SkipSpaces(s, q + 1)
      e == SkipDigits(s, r)
  IN /\ s[i] = "["
     /\ p <= Len(s) + 1
     /\ \A x \in (i + 1)..(p - 1) : s[x] # "]"
     /\ q <= Len(s) /\ IsSeasonKw(s[q])
     /\ r <= Len(s) /\ e > r
     /\ e <= Len(s) /\ s[e] = "]"

TitleSeasonSearch(s) ==
  LET starts == {i \in 1..Len(s) : \E k \in 0..Len(s) : TitleSeasonAt(s, i, k)}
  IN IF starts = {} THEN NoMatch
     ELSE LET i == Min(starts)
              k == Min({x \in 0..Len(s) : TitleSeasonAt(s, i, x)})
              q == SkipSpaces(s, i + 1 + k)
              r == SkipSpaces(s, q + 1)
              e == SkipDigits(s, r)
          IN [found |-> TRUE, whole |-> SubSeq(s, i, e),
              g1 |-> SubSeq(s, i + 1, i + k), g2 |-> SubSeq(s, r, e - 1)]

(* ------------------------------------------------------------------ *)
(* The pattern set (the JSON file read by _load_patterns).  A rule is   *)
(* "absent" (no such key), "nogroup" (no capturing group) or "group".  *)
(* The expressions, all searched with re.IGNORECASE:                   *)
(*   resolution      \d{3,4}p          or  (\d{3,4})p                  *)
(*   source          BD|WEB            or  (BD|WEB)                    *)
(*   video_codec     x26[45]           or  (x26[45])                   *)
(*   audio_codec     AAC|FLAC          or  (AAC|FLAC)                  *)
(*   subtitle        CHS|CHT           or  (CHS|CHT)                   *)
(*   group           Group|Subs        or  (Group|Subs)                *)
(*   season_episode  S(\d+)E(\d+)                                      *)
(*   episode         -\s*(\d+)                                         *)
(* ------------------------------------------------------------------ *)
TechKeys == <<"resolution", "source", "video_codec", "audio_codec", "subtitle", "group">>

OnceFields == {"resolution", "video_codec", "audio_codec", "subtitle", "group"}

RuleNames == {"resolution", "source", "video_codec", "audio_codec", "subtitle",
              "group", "season_episode", "episode"}

FullPatterns == [r \in RuleNames |-> "group"]

ScenarioPatterns == [FullPatterns EXCEPT !["resolution"] = "nogroup",
                                         !["video_codec"] = "nogroup"]

PatternSets == {FullPatterns, ScenarioPatterns,
                [FullPatterns EXCEPT !["season_episode"] = "absent"],
                [FullPatterns EXCEPT !["episode"] = "absent"],
                [FullPatterns EXCEPT !["resolution"] = "absent"]}

WordsOf(key) ==
  CASE key = "source" -> {"BD", "WEB"}
    [] key = "audio_codec" -> {"AAC", "FLAC"}
    [] key = "subtitle" -> {"CHS", "CHT"}
    [] key = "group" -> {"Group", "Subs"}
    [] OTHER -> {}

(* \d{3,4}p at i: the length of the digit run taken (4 before 3), 0 if none *)
ResolutionAt(c, i) ==
  LET d(k) == k <= Len(c) /\ IsDigit(c[k])
      p(k) == k <= Len(c) /\ c[k] \in {"p", "P"}
  IN IF d(i) /\ d(i + 1) /\ d(i + 2) /\ d(i + 3) /\ p(i + 4) THEN 4
     ELSE IF d(i) /\ d(i + 1) /\ d(i + 2) /\ p(i + 3) THEN 3
     ELSE 0

CodecAt(c, i) ==
  /\ i + 3 <= Len(c)
  /\ c[i] \in {"x", "X"} /\ c[i + 1] = "2" /\ c[i + 2] = "6" /\ c[i + 3] \in {"4", "5"}

(* re.search(pattern, content, re.IGNORECASE) for a technical rule: g1 is
   group(1) of a rule that has a capturing group. *)
TechSearch(key, c) ==
  LET at == CASE key = "resolution" -> {i \in 1..Len(c) : ResolutionAt(c, i) > 0}
              [] key = "video_codec" -> {i \in 1..Len(c) : CodecAt(c, i)}
              [] OTHER -> {i \in 1..Len(c) : c[i] \in WordsOf(key)}
  IN IF at = {} THEN NoMatch
     ELSE LET i == Min(at)
          IN CASE key = "resolution" ->
                    [found |-> TRUE, whole |-> SubSeq(c, i, i + ResolutionAt(c, i)),
                     g1 |-> SubSeq(c, i, i + ResolutionAt(c, i) - 1), g2 |-> <<>>]
               [] key = "video_codec" ->
                    [found |-> TRUE, whole |-> SubSeq(c, i, i + 3),
                     g1 |-> SubSeq(c, i, i + 3), g2 |-> <<>>]
               [] OTHER ->
                    [found |-> TRUE, whole |-> <<c[i]>>, g1 |-> <<c[i]>>, g2 |-> <<>>]

(* the first key of tech_keys, in order, whose rule is present and matches *)
FirstRule(pats, c) ==
  LET hits == {k \in 1..Len(TechKeys) :
                 pats[TechKeys[k]] # "absent" /\ TechSearch(TechKeys[k], c).found}
  IN IF hits = {} THEN "" ELSE TechKeys[Min(hits)]

(* S(\d+)E(\d+) *)
SeasonEpisodeAt(s, i) ==
  LET e == SkipDigits(s, i + 1)
  IN /\ s[i] \in {"S", "s"}
     /\ e > i + 1 /\ e <= Len(s) /\ s[e] \in {"E", "e"}
     /\ SkipDigits(s, e + 1) > e + 1

SeasonEpisodeSearch(s) ==
  LET at == {i \in 1..Len(s) : SeasonEpisodeAt(s, i)}
  IN IF at = {} THEN NoMatch
     ELSE LET i == Min(at)
              e == SkipDigits(s, i + 1)
              z == SkipDigits(s, e + 1)
          IN [found |-> TRUE, whole |-> SubSeq(s, i, z - 1),
              g1 |-> SubSeq(s, i + 1, e - 1), g2 |-> SubSeq(s, e + 1, z - 1)]

(* -\s*(\d+) *)
EpisodeAt(s, i) ==
  /\ s[i] = "-"
  /\ SkipDigits(s, SkipSpaces(s, i + 1)) > SkipSpaces(s, i + 1)

EpisodeSearch(s) ==
  LET at == {i \in 1..Len(s) : EpisodeAt(s, i)}
  IN IF at = {} THEN NoMatch
     ELSE LET i == Min(at)
              d == SkipSpaces(s, i + 1)
              z == SkipDigits(s, d)
          IN [found |-> TRUE, whole |-> SubSeq(s, i, z - 1),
              g1 |-> SubSeq(s, d, z - 1), g2 |-> <<>>]

(* an absent rule is searched as the empty expression, which matches the
   empty text at the start and has no group *)
EmptyMatch == [found |-> TRUE, whole |-> <<>>, g1 |-> <<>>, g2 |-> <<>>]

(* ------------------------------------------------------------------ *)
(* int() and the format {:02d}                                         *)
(* ------------------------------------------------------------------ *)
DigitVal(t) == CHOOSE n \in 0..9 : <<"0", "1", "2", "3", "4", "5", "6", "7", "8", "9">>[n + 1] = t

DigitTok(n) == <<"0", "1", "2", "3", "4", "5", "6", "7", "8", "9">>[n + 1]

RECURSIVE ToInt(_)
ToInt(ds) ==
  IF ds = <<>> THEN 0
  ELSE 10 * ToInt(SubSeq(ds, 1, Len(ds) - 1)) + DigitVal(ds[Len(ds)])

RECURSIVE ToStr(_)
ToStr(n) == IF n < 10 THEN <<DigitTok(n)>> ELSE ToStr(n \div 10) \o <<DigitTok(n % 10)>>

(* a variant of Format02d without the zero padding *)
FormatPlain(n) == ToStr(n)

Format02d(n) == IF n < 10 THEN <<"0">> \o ToStr(n) ELSE ToStr(n)

(* ------------------------------------------------------------------ *)
(* Step 4: the title left in the working string                        *)
(* ------------------------------------------------------------------ *)
RECURSIVE CollapseSeps(_)
CollapseSeps(s) ==
  IF s = <<>> THEN <<>>
  ELSE IF IsSep(s[1])
       THEN LET n == Min({k \in 1..(Len(s) + 1) : k = Len(s) + 1 \/ ~IsSep(s[k])})
            IN <<" ">> \o CollapseSeps(SubSeq(s, n, Len(s)))
       ELSE <<s[1]>> \o CollapseSeps(Tail(s))

UnknownTitle == <<"Unknown", " ", "Title">>

(* a variant of FallbackTitle without the separator collapse of line 131 *)
FallbackTitleNoCollapse(work) ==
  LET t == Strip(StripBlocks(work))
  IN IF t = <<>> THEN UnknownTitle ELSE t

FallbackTitle(work) ==
  LET t == Strip(CollapseSeps(Strip(StripBlocks(work))))
  IN IF t = <<>> THEN UnknownTitle ELSE t

RECURSIVE Join(_)
Join(vals) ==
  IF Len(vals) = 1 THEN vals[1] ELSE vals[1] \o <<",", " ">> \o Join(Tail(vals))

(* ------------------------------------------------------------------ *)
(* State                                                               *)
(* ------------------------------------------------------------------ *)
VARIABLES
  patterns,       \* self.patterns
  pc,             \* position in process_directory / parse_filename
  nfiles,         \* total_files of process_directory
  filename,       \* the stem handed to parse_filename
  work_str,       \* parse_filename: work_str
  temp_work_str,  \* parse_filename: temp_work_str
  blocks,         \* parse_filename: the bracket blocks of the step 2 loop
  bi,             \* parse_filename: index of the next block in the loop
  info,           \* parse_filename: info, then process_directory: media_info
  raw_episode,    \* parse_filename: the text the episode group captured
  error,          \* the exception that ended the run ("" while none)
  api_cache,      \* self._api_cache
  calls,          \* log of the calls of _get_bangumi_details
  requests        \* log of the queries sent to get_details_for_scraping

vars == <<patterns, pc, nfiles, filename, work_str, temp_work_str, blocks, bi,
          info, raw_episode, error, api_cache, calls, requests>>

parseVars == <<filename, work_str, temp_work_str, blocks, bi, info, raw_episode>>

batchVars == <<nfiles, api_cache, calls, requests>>

NoEps == <<>>

EmptyInfo ==
  [group |-> None, title |-> None, season |-> None, episode |-> None,
   resolution |-> None, video_codec |-> None, audio_codec |-> None,
   subtitle |-> None, remarks |-> <<>>, bangumi_eps |-> NoEps]

(* ------------------------------------------------------------------ *)
(* parse_filename                                                      *)
(* ------------------------------------------------------------------ *)

(* a variant of SetOnce without the "is None" test of line 106 *)
SetAlways(inf, field, value) == [inf EXCEPT ![field] = value]

(* info[field] = value unless the field is already set *)
SetOnce(inf, field, value) ==
  IF inf[field] = None THEN [inf EXCEPT ![field] = value] ELSE inf

(* (match.group(1) or match.group(0)).strip() of a rule with a group *)
GroupValue(m) == Strip(IF m.g1 # <<>> THEN m.g1 ELSE m.whole)

(* season and title of step 1 *)
TitleSeasonInfo(m) ==
  IF m.found THEN [EmptyInfo EXCEPT !.title = Strip(m.g1), !.season = Strip(m.g2)]
  ELSE EmptyInfo

(* lines 76-89: step 1, and the blocks the loop of step 2 will visit *)
ParseTitleSeason ==
  /\ pc = "parse"
  /\ LET m == TitleSeasonSearch(filename)
         w == IF m.found THEN Replace1(filename, m.whole) ELSE filename
     IN /\ info' = TitleSeasonInfo(m)
        /\ work_str' = w
        /\ temp_work_str' = w
        /\ blocks' = FindBlocks(w)
  /\ bi' = 1
  /\ pc' = "tech"
  /\ UNCHANGED <<patterns, filename, raw_episode, error, batchVars>>

(* info after a block claimed by rule key *)
TechInfo(inf, key, value) ==
  IF key = "source" THEN [inf EXCEPT !.remarks = Append(@, value)]
  ELSE SetOnce(inf, key, value)

(* lines 95-112: one iteration of the loop of step 2 *)
ParseTechBlock ==
  /\ pc = "tech"
  /\ bi <= Len(blocks)
  /\ LET b == blocks[bi]
         key == FirstRule(patterns, b.content)
     IN IF key = ""
        THEN /\ bi' = bi + 1
             /\ UNCHANGED <<pc, info, temp_work_str, error>>
        ELSE IF patterns[key] = "nogroup"
        THEN \* match.group(1) of an expression without a group
             /\ pc' = "raised"
             /\ error' = "IndexError"
             /\ UNCHANGED <<bi, info, temp_work_str>>
        ELSE /\ info' = TechInfo(info, key, GroupValue(TechSearch(key, b.content)))
             /\ temp_work_str' = Replace1(temp_work_str, b.text)
             /\ bi' = bi + 1
             /\ UNCHANGED <<pc, error>>
  /\ UNCHANGED <<patterns, filename, work_str, blocks, raw_episode, batchVars>>

(* re.search(self.patterns.get(name, ''), work_str, re.IGNORECASE) *)
EpisodeRuleSearch(name, work) ==
  IF patterns[name] = "absent" THEN EmptyMatch
  ELSE IF name = "season_episode" THEN SeasonEpisodeSearch(work)
  ELSE EpisodeSearch(work)

(* a variant of SeasonOfMatch without the "is None" test of line 119 *)
SeasonOfMatchAlways(inf, m) == ToStr(ToInt(m.g1))

(* the season of step 3: kept when step 1 set it *)
SeasonOfMatch(inf, m) ==
  IF inf.season = None THEN ToStr(ToInt(m.g1)) ELSE inf.season

EpisodeOfMatch(raw) == Format02d(ToInt(raw))

(* lines 113-126: step 3 *)
ParseSeasonEpisode ==
  /\ pc = "tech"
  /\ bi > Len(blocks)
  /\ LET work == temp_work_str
         se == EpisodeRuleSearch("season_episode", work)
         ep == EpisodeRuleSearch("episode", work)
     IN IF info.episode # None
        THEN /\ work_str' = work
             /\ pc' = "title"
             /\ UNCHANGED <<info, raw_episode, error>>
        ELSE IF se.found
        THEN IF patterns["season_episode"] = "absent"
             THEN \* se_match.group(1) of the empty expression
                  /\ pc' = "raised"
                  /\ error' = "IndexError"
                  /\ work_str' = work
                  /\ UNCHANGED <<info, raw_episode>>
             ELSE /\ info' = [info EXCEPT !.season = SeasonOfMatch(info, se),
                                          !.episode = EpisodeOfMatch(se.g2)]
                  /\ raw_episode' = se.g2
                  /\ work_str' = Replace1(work, se.whole)
                  /\ pc' = "title"
                  /\ UNCHANGED error
        ELSE IF ep.found
        THEN IF patterns["episode"] = "absent"
             THEN \* ep_match.group(1) of the empty expression
                  /\ pc' = "raised"
                  /\ error' = "IndexError"
                  /\ work_str' = work
                  /\ UNCHANGED <<info, raw_episode>>
             ELSE /\ info' = [info EXCEPT !.episode = EpisodeOfMatch(ep.g1)]
                  /\ raw_episode' = ep.g1
                  /\ work_str' = Replace1(work, ep.whole)
                  /\ pc' = "title"
                  /\ UNCHANGED error
        ELSE /\ work_str' = work
             /\ pc' = "title"
             /\ UNCHANGED <<info, raw_episode, error>>
  /\ UNCHANGED <<patterns, filename, temp_work_str, blocks, bi, batchVars>>

(* lines 129-132 *)
FinalTitle(inf, work) == IF inf.title = None THEN FallbackTitle(work) ELSE inf.title

(* lines 128-138: steps 4 and 5, and the return *)
ParseFinish ==
  /\ pc = "title"
  /\ info' = [info EXCEPT
                !.title = FinalTitle(info, work_str),
                !.season = IF @ = None THEN <<"1">> ELSE @,
                !.remarks = IF @ = <<>> THEN None ELSE Join(@)]
  /\ pc' = "parsed"
  /\ UNCHANGED <<patterns, filename, work_str, temp_work_str, blocks, bi,
                 raw_episode, error, batchVars>>

(* ------------------------------------------------------------------ *)
(* The stems parse_filename is checked on: up to MaxSegs segments      *)
(* ------------------------------------------------------------------ *)
Segments ==
  <<  <<"[", "Show", " ", "Season", " ", "3", "]">>,
      <<"[", "Season", " ", "2", "]">>,
      <<"[", "1", "0", "8", "0", "p", "]">>,
      <<"[", "7", "2", "0", "p", "]">>,
      <<"[cjk", "BD", "]cjk">>,
      <<"Show">>,
      <<".", " ">>,
      <<" ", "-", " ", "0", "5">>,
      <<" ", "-", " ", "1", "0", "0">>,
      <<" ", "S", "0", "2", "E", "0", "7">> >>

RECURSIVE Flatten(_)
Flatten(ss) == IF ss = <<>> THEN <<>> ELSE Segments[ss[1]] \o Flatten(Tail(ss))

ScenarioA ==
  <<"[", "Group", "]", "[", "Spy", " ", "x", " ", "Family", " ", "Season", " ", "3", "]",
    "[", "1", "0", "8", "0", "p", "]", "[", "x", "2", "6", "4", "]",
    " ", "-", " ", "0", "5">>

ParseStems ==
  {Flatten(ss) : ss \in UNION {[1..n -> 1..Len(Segments)] : n \in 0..MaxSegs}}
    \cup {ScenarioA}

InitParse ==
  /\ patterns \in PatternSets
  /\ filename \in ParseStems
  /\ pc = "parse"
  /\ nfiles = 1
  /\ work_str = <<>>
  /\ temp_work_str = <<>>
  /\ blocks = <<>>
  /\ bi = 1
  /\ info = EmptyInfo
  /\ raw_episode = None
  /\ error = ""
  /\ api_cache = <<>>
  /\ calls = <<>>
  /\ requests = <<>>

NextParse ==
  \/ ParseTitleSeason
  \/ ParseTechBlock
  \/ ParseSeasonEpisode
  \/ ParseFinish

SpecParse == InitParse /\ [][NextParse]_vars

(* ------------------------------------------------------------------ *)
(* BangumiAPIClient (src/demo/bangumi_api.py)                          *)
(* ------------------------------------------------------------------ *)

(* What one _make_request call can do: return the decoded body, or raise.
   "empty" is a body without results, "noid" a first result without id,
   "badshape" a body that is not a JSON object. *)
SearchOutcomes == {"ok", "empty", "noid", "NotFoundError", "APIError", "NetworkError"}

DetailOutcomes == {"ok", "badshape", "NotFoundError", "APIError", "NetworkError"}

(* the class hierarchy: NetworkError and NotFoundError are APIErrors *)
IsAPIError(e) == e \in {"APIError", "NetworkError", "NotFoundError"}

NoDetails == [found |-> FALSE, name_cn |-> <<>>, total_episodes |-> 0]

Returned(d) == [exc |-> "", details |-> d]

Raised(e) == [exc |-> e, details |-> NoDetails]

(* search_subject: the exceptions it lets through ("" when it returns) *)
SearchRaises(so) ==
  IF so \in {"APIError", "NetworkError"} THEN so ELSE ""

(* search_subject returned a first result *)
SearchFound(so) == so = "ok"

(* the try block of get_details_for_scraping: the detail request, the
   episode request, then the reads of both bodies *)
DetailsRaises(do, eo) ==
  IF do \notin {"ok", "badshape"} THEN do
  ELSE IF eo \notin {"ok", "badshape"} THEN eo
  ELSE IF eo = "badshape" \/ do = "badshape" THEN "AttributeError"
  ELSE ""

(* get_details_for_scraping *)
GetDetailsForScraping(so, do, eo, rec) ==
  IF SearchRaises(so) # "" THEN Raised(SearchRaises(so))
  ELSE IF ~SearchFound(so) THEN Returned(NoDetails)
  ELSE LET e == DetailsRaises(do, eo)
       IN IF e = "" THEN Returned(rec)
          ELSE IF IsAPIError(e) THEN Returned(NoDetails)
          ELSE Raised(e)

(* the records the title source can hold *)
ApiTitles ==
  { <<"mou_fan">>,
    <<"mou_fan", " ", "di", "er", "ji">>,
    <<"mou_fan", " ", "di", "san", "ji", " ", "Part">>,
    <<"di", "di", "shi", "ji", "er", "ji">> }

ApiRecords == {[found |-> TRUE, name_cn |-> t, total_episodes |-> 12] : t \in ApiTitles}

(* ------------------------------------------------------------------ *)
(* _get_bangumi_details and the season correction of process_directory *)
(* ------------------------------------------------------------------ *)
Numerals == <<"yi", "er", "san", "si", "wu", "liu", "qi", "ba", "jiu", "shi">>

IsNumeral(t) == \E n \in 1..Len(Numerals) : Numerals[n] = t

cn_num_map(t) == CHOOSE n \in 1..Len(Numerals) : Numerals[n] = t

MarkerAt(t, i) ==
  /\ i + 2 <= Len(t)
  /\ t[i] = "di" /\ IsNumeral(t[i + 1]) /\ t[i + 2] = "ji"

(* re.search of the season marker: the index of the first one, 0 if none *)
MarkerSearch(t) ==
  LET at == {i \in 1..Len(t) : MarkerAt(t, i)}
  IN IF at = {} THEN 0 ELSE Min(at)

(* re.sub(r'\s*<marker>', '', t): each match is the whitespace before a
   marker and the marker *)
RECURSIVE SubMarkersFrom(_, _)
SubMarkersFrom(t, from) ==
  LET at == {i \in from..Len(t) : MarkerAt(t, SkipSpaces(t, i))}
  IN IF at = {} THEN SubSeq(t, from, Len(t))
     ELSE SubSeq(t, from, Min(at) - 1)
          \o SubMarkersFrom(t, SkipSpaces(t, Min(at)) + 3)

CleanApiTitle(t) == Strip(SubMarkersFrom(t, 1))

(* line 146 *)
ApiQuery(title, season) ==
  IF season # None /\ season # <<>> /\ season # <<"1">>
  THEN title \o <<" ", "Season", " ">> \o season
  ELSE title

(* a variant of CacheHit that tests the stored value instead of the key *)
CacheHitFound(q) == \E k \in 1..Len(api_cache) : api_cache[k].key = q /\ api_cache[k].value.found

(* api_query in self._api_cache *)
CacheHit(q) == \E k \in 1..Len(api_cache) : api_cache[k].key = q

CacheGet(q) == api_cache[CHOOSE k \in 1..Len(api_cache) : api_cache[k].key = q].value

(* self._api_cache[api_query] = details *)
CachePut(cache, q, v) ==
  IF \E k \in 1..Len(cache) : cache[k].key = q
  THEN [k \in 1..Len(cache) |->
          IF cache[k].key = q THEN [key |-> q, value |-> v] ELSE cache[k]]
  ELSE Append(cache, [key |-> q, value |-> v])

(* a variant of CorrectedSeason without the test of line 225 *)
CorrectedSeasonAlways(season, api_title) ==
  IF MarkerSearch(api_title) # 0
  THEN ToStr(cn_num_map(api_title[MarkerSearch(api_title) + 1]))
  ELSE season

(* lines 225-231 *)
CorrectedSeason(season, api_title) ==
  IF season = <<"1">> /\ MarkerSearch(api_title) # 0
  THEN ToStr(cn_num_map(api_title[MarkerSearch(api_title) + 1]))
  ELSE season

(* lines 220-236 *)
ApplyDetails(inf, d) ==
  IF ~d.found THEN inf
  ELSE [inf EXCEPT !.season = CorrectedSeason(inf.season, d.name_cn),
                   !.title = CleanApiTitle(d.name_cn),
                   !.bangumi_eps = <<d.total_episodes>>]

(* line 216 *)
WantsLookup(inf) == inf.title # <<>> /\ inf.title # UnknownTitle

(* ------------------------------------------------------------------ *)
(* process_directory                                                   *)
(* ------------------------------------------------------------------ *)
BatchStems ==
  { <<"[", "Group", "]", "Show">>,
    <<"Show", " ", "-", " ", "0", "5">>,
    <<"Show", " ", "S", "0", "2", "E", "0", "7">>,
    <<"[", "Show", " ", "Season", " ", "3", "]", " ", "-", " ", "0", "5">>,
    <<"[", "Season", " ", "2", "]">> }

BatchPatternSets == {FullPatterns, [FullPatterns EXCEPT !["episode"] = "absent"]}

(* lines 210-214: the next file of the scan *)
NextFile ==
  /\ pc = "idle"
  /\ nfiles < MaxFiles
  /\ nfiles' = nfiles + 1
  /\ filename' \in BatchStems
  /\ pc' = "parse"
  /\ UNCHANGED <<patterns, work_str, temp_work_str, blocks, bi, info, raw_episode,
                 error, api_cache, calls, requests>>

(* line 216 false: no lookup for this file *)
ResolveSkip ==
  /\ pc = "parsed"
  /\ ~WantsLookup(info)
  /\ pc' = "resolved"
  /\ UNCHANGED <<patterns, parseVars, error, batchVars>>

(* lines 147-149, then 220-236: the query is in the cache *)
ResolveCached ==
  /\ pc = "parsed"
  /\ WantsLookup(info)
  /\ LET q == ApiQuery(info.title, info.season)
     IN /\ CacheHit(q)
        /\ calls' = Append(calls, [query |-> q, fetched |-> FALSE, result |-> CacheGet(q)])
        /\ info' = ApplyDetails(info, CacheGet(q))
  /\ pc' = "resolved"
  /\ UNCHANGED <<patterns, nfiles, filename, work_str, temp_work_str, blocks, bi,
                 raw_episode, error, api_cache, requests>>

(* lines 150-152, then 220-236: the query goes to the title source *)
ResolveFetch ==
  /\ pc = "parsed"
  /\ WantsLookup(info)
  /\ LET q == ApiQuery(info.title, info.season)
     IN /\ ~CacheHit(q)
        /\ requests' = Append(requests, q)
        /\ \E so \in SearchOutcomes, do \in DetailOutcomes, eo \in DetailOutcomes,
              rec \in ApiRecords :
             LET r == GetDetailsForScraping(so, do, eo, rec)
             IN IF r.exc # ""
                THEN /\ pc' = "raised"
                     /\ error' = r.exc
                     /\ UNCHANGED <<info, api_cache, calls>>
                ELSE /\ api_cache' = CachePut(api_cache, q, r.details)
                     /\ calls' = Append(calls, [query |-> q, fetched |-> TRUE,
                                                result |-> r.details])
                     /\ info' = ApplyDetails(info, r.details)
                     /\ pc' = "resolved"
                     /\ UNCHANGED error
  /\ UNCHANGED <<patterns, nfiles, filename, work_str, temp_work_str, blocks, bi,
                 raw_episode>>

(* lines 238-239 and the end of the loop body: the locals of the iteration
   are dropped (create_hard_link only touches the file system) *)
LinkFile ==
  /\ pc = "resolved"
  /\ pc' = "idle"
  /\ filename' = <<>>
  /\ work_str' = <<>>
  /\ temp_work_str' = <<>>
  /\ blocks' = <<>>
  /\ bi' = 1
  /\ info' = EmptyInfo
  /\ raw_episode' = None
  /\ UNCHANGED <<patterns, error, batchVars>>

Init ==
  /\ patterns \in BatchPatternSets
  /\ pc = "idle"
  /\ nfiles = 0
  /\ filename = <<>>
  /\ work_str = <<>>
  /\ temp_work_str = <<>>
  /\ blocks = <<>>
  /\ bi = 1
  /\ info = EmptyInfo
  /\ raw_episode = None
  /\ error = ""
  /\ api_cache = <<>>
  /\ calls = <<>>
  /\ requests = <<>>

Next ==
  \/ NextFile
  \/ ParseTitleSeason
  \/ ParseTechBlock
  \/ ParseSeasonEpisode
  \/ ParseFinish
  \/ ResolveSkip
  \/ ResolveCached
  \/ ResolveFetch
  \/ LinkFile

Spec == Init /\ [][Next]_vars

(* ================================================================== *)
(* Properties                                                          *)
(* ================================================================== *)
Last(q) == q[Len(q)]

(* the tokens of t at the positions outside D, in order *)
RECURSIVE WithoutFrom(_, _, _)
WithoutFrom(t, D, k) ==
  IF k > Len(t) THEN <<>>
  ELSE (IF k \in D THEN <<>> ELSE <<t[k]>>) \o WithoutFrom(t, D, k + 1)

Without(t, D) == WithoutFrom(t, D, 1)

(* C1: in one run no query string is sent to the title source twice, and a
   later call of _get_bangumi_details with a query already asked is served
   from the cache with the value the first call stored, a stored "not
   found" included. *)
C1_SingleFetch ==
  /\ \A i, j \in 1..Len(requests) : i # j => requests[i] # requests[j]
  /\ \A i, j \in 1..Len(calls) :
       (i < j /\ calls[i].query = calls[j].query)
         => (~calls[j].fetched /\ calls[j].result = calls[i].result)

C1_Witness ==
  \E i, j \in 1..Len(calls) :
    /\ i < j
    /\ calls[i].query = calls[j].query
    /\ calls[i].fetched
    /\ ~calls[i].result.found
    /\ Len(requests) = 1

(* C2: an error of the title source, in the search request as in the detail
   and episode requests, never ends process_directory: the file counts as
   "no record found" and the batch goes on. *)
C2_LookupErrorsAbsorbed ==
  ~(pc = "raised" /\ error \in {"APIError", "NetworkError", "NotFoundError", "AttributeError"})

(* C3: parse_filename returns a record for every stem also when rules are
   absent from the pattern set: an absent rule is a rule that never
   matches. *)
C3_AbsentRuleNeverFails ==
  (\A r \in RuleNames : patterns[r] # "nogroup") => pc # "raised"

(* C4: the title of the record parse_filename returns is never empty. *)
C4_TitleNonEmpty ==
  pc = "parsed" => (info.title # <<>> /\ info.title # None)

(* C5: within one parse_filename call a technical field that is set keeps
   its value: no later bracket of the same category changes it. *)
C5_NoOverwrite ==
  [][\A f \in OnceFields : (pc # "parse" /\ info[f] # None) => info'[f] = info[f]]_vars

(* two blocks claimed by the same set-once rule with different values; the
   field holds the value of the first *)
C5_Witness ==
  /\ pc = "parsed"
  /\ \E j, k \in 1..Len(blocks) :
       LET f == FirstRule(patterns, blocks[j].content)
       IN /\ j < k
          /\ f \in OnceFields
          /\ FirstRule(patterns, blocks[k].content) = f
          /\ GroupValue(TechSearch(f, blocks[j].content))
               # GroupValue(TechSearch(f, blocks[k].content))
          /\ info[f] = GroupValue(TechSearch(f, blocks[j].content))

(* C6: when the stem holds a title+season bracket, the season returned is
   the digits of that bracket, whatever the season_episode rule finds
   later. *)
C6_SeasonPrecedence ==
  (pc = "parsed" /\ TitleSeasonSearch(filename).found)
    => info.season = TitleSeasonSearch(filename).g2

(* the bracket says one season, the season_episode rule matched another,
   and set the episode *)
C6_Witness ==
  /\ pc = "parsed"
  /\ TitleSeasonSearch(filename).found
  /\ patterns["season_episode"] = "group"
  /\ SeasonEpisodeSearch(temp_work_str).found
  /\ ToStr(ToInt(SeasonEpisodeSearch(temp_work_str).g1)) # TitleSeasonSearch(filename).g2
  /\ info.episode # None
  /\ raw_episode = SeasonEpisodeSearch(temp_work_str).g2

(* C7 as stated: every extracted episode is exactly two digits long. *)
C7_EpisodeExactlyTwoDigits ==
  (pc = "parsed" /\ info.episode # None) => Len(info.episode) = 2

(* C7, amended: the episode is the captured number zero-padded to at least
   two digits: two digits below 100, all its digits from 100 on. *)
C7_EpisodePaddedToTwo ==
  (pc = "parsed" /\ info.episode # None)
    => LET v == ToInt(raw_episode)
       IN /\ \A k \in 1..Len(info.episode) : IsDigit(info.episode[k])
          /\ ToInt(info.episode) = v
          /\ v < 100 => Len(info.episode) = 2
          /\ v >= 100 => (Len(info.episode) >= 3 /\ info.episode[1] # "0")

C7_Witness ==
  /\ pc = "parsed"
  /\ info.episode # None
  /\ ToInt(raw_episode) >= 100

(* the call of _get_bangumi_details that found a record, and what
   process_directory then did with it *)
FoundStep ==
  /\ pc = "parsed"
  /\ pc' = "resolved"
  /\ Len(calls') = Len(calls) + 1
  /\ Last(calls').result.found

Markers(t) == {i \in 1..Len(t) : MarkerAt(t, i)}

MarkerTokens(t) == {k \in 1..Len(t) : \E i \in Markers(t) : k \in i..(i + 2)}

SpaceBeforeMarker(t) ==
  {k \in 1..Len(t) : \E i \in Markers(t) : k < i /\ \A x \in k..(i - 1) : IsSpace(t[x])}

SeasonRule(before, after, t) ==
  /\ (before = <<"1">> /\ Markers(t) # {})
       => after = ToStr(cn_num_map(t[Min(Markers(t)) + 1]))
  /\ before # <<"1">> => after = before

(* C8 as stated: season corrected only from "1", and the title is the
   localized title with the marker tokens removed, trimmed. *)
C8_TitleMarkerStripped ==
  [][FoundStep =>
       LET t == Last(calls').result.name_cn
       IN /\ SeasonRule(info.season, info'.season, t)
          /\ info'.title = Strip(Without(t, MarkerTokens(t)))]_vars

(* C8, amended: the season rule as stated (the first marker counts); the
   title is the localized title with every marker and the whitespace right
   before it removed, trimmed. *)
C8_TitleMarkerAndSpaceStripped ==
  [][FoundStep =>
       LET t == Last(calls').result.name_cn
       IN /\ SeasonRule(info.season, info'.season, t)
          /\ info'.title = Strip(Without(t, MarkerTokens(t) \cup SpaceBeforeMarker(t)))]_vars

(* Scenario B: parsed season "1", localized title "mou_fan di er ji" *)
C8_Witness ==
  /\ pc = "resolved"
  /\ calls # <<>>
  /\ Last(calls).query = <<"Show">>
  /\ Last(calls).result.found
  /\ Last(calls).result.name_cn = <<"mou_fan", " ", "di", "er", "ji">>
  /\ info.season = <<"2">>
  /\ info.title = <<"mou_fan">>

NoBracketsNoDigits(s) ==
  \A k \in 1..Len(s) : ~IsOpen(s[k]) /\ ~IsClose(s[k]) /\ ~IsDigit(s[k])

OptionalsUnset(inf) ==
  /\ inf.group = None /\ inf.episode = None /\ inf.resolution = None
  /\ inf.video_codec = None /\ inf.audio_codec = None /\ inf.subtitle = None
  /\ inf.remarks = None

(* the words of s, one space between two words that separators part *)
RECURSIVE WordsFrom(_, _, _)
WordsFrom(s, k, gap) ==
  IF k > Len(s) THEN <<>>
  ELSE IF IsSep(s[k]) THEN WordsFrom(s, k + 1, TRUE)
  ELSE (IF gap THEN <<" ", s[k]>> ELSE <<s[k]>>) \o WordsFrom(s, k + 1, FALSE)

SpacedWords(s) ==
  LET first == {k \in 1..Len(s) : ~IsSep(s[k])}
  IN IF first = {} THEN <<>> ELSE WordsFrom(s, Min(first), FALSE)

C10_WholeMatchWithoutGroup ==
  (/\ pc \in {"tech", "raised"}
   /\ bi <= Len(blocks)
   /\ FirstRule(patterns, blocks[bi].content) # "")
    => (patterns[FirstRule(patterns, blocks[bi].content)] = "nogroup" => pc # "raised")

====
